---------------------------- MODULE Spec2Model ----------------------------
(***************************************************************************)
(* A model of the recurring date picker store (useDatePickerStore) and of  *)
(* its occurrence generator calculatePreviewDates / getNthDayOfMonth.      *)
(*                                                                         *)
(* A Date is its time value: an integer number of ticks since 1970-01-01   *)
(* 00:00, with TicksPerDay ticks in a day (the source has 86400000 ms in a *)
(* day).  A single calendar without daylight saving is assumed.            *)
(***************************************************************************)
EXTENDS Integers, Sequences, FiniteSets, TLC

VARIABLES
    selectedDate,           \* store: start date (a time value)
    endDate,                \* store: end date or NoDate (null)
    recurrenceType,         \* store: "daily" | "weekly" | "monthly" | "yearly" | NoType
    recurrenceInterval,     \* store: interval
    selectedDays,           \* store: sequence of weekdays 0..6
    monthlyRecurrenceType,  \* store: "dayOfMonth" | "nthDay"
    nthDayConfig,           \* store: NoConfig or [weekNum, dayOfWeek]
    previewDates,           \* store: sequence of dates
    errors,                 \* store: sequence of error fields
    pc,                     \* control point of the running function or handler
    dates,                  \* calculatePreviewDates: the local array `dates`
    currentDate,            \* calculatePreviewDates: the loop cursor
    weekStart               \* calculatePreviewDates: the weekly window start

vars == << selectedDate, endDate, recurrenceType, recurrenceInterval,
           selectedDays, monthlyRecurrenceType, nthDayConfig, previewDates,
           errors, pc, dates, currentDate, weekStart >>

configVars == << selectedDate, endDate, recurrenceType, recurrenceInterval,
                 selectedDays, monthlyRecurrenceType, nthDayConfig >>

---------------------------------------------------------------------------
(* Bounds of the model *)

\* time resolution: ticks in one day
TicksPerDay == 2

\* largest interval drawn as an input
MaxInterval == 2

\* with no end date the loops are followed until `dates` holds this many
MaxDates == 6

\* longest daily range drawn as an input, in ticks
MaxDailySpan == 7

\* longest weekly range drawn as an input, in ticks
MaxWeeklySpan == 30

---------------------------------------------------------------------------
(* Values *)

NoDate == -1          \* null
InvalidDate == -2     \* a Date whose time value is NaN
NoType == "null"
NoConfig == [weekNum |-> 0, dayOfWeek |-> 0]
NoCursor == -3        \* a local that is not yet assigned

RecurrenceType == {"daily", "weekly", "monthly", "yearly"}
MonthlyRecurrenceType == {"dayOfMonth", "nthDay"}

Min(a, b) == IF a <= b THEN a ELSE b

---------------------------------------------------------------------------
(* The calendar: Date's constructor and getters, and the date-fns helpers *)

\* the day number (days since 1970-01-01) of a time value, and its time of day
DayOf(t) == t \div TicksPerDay
TodOf(t) == t % TicksPerDay

IsLeap(y) == (y % 4 = 0 /\ y % 100 # 0) \/ y % 400 = 0

\* m is a JavaScript month, 0..11
DaysInMonth(y, m) ==
    IF m = 1 THEN (IF IsLeap(y) THEN 29 ELSE 28)
    ELSE IF m \in {3, 5, 8, 10} THEN 30 ELSE 31

\* day number of year y, month m (0..11), day d; a function, so that its
\* arguments are evaluated once
DayOfCivil[y \in Int, m \in Int, d \in Int] ==
    LET yy  == IF m <= 1 THEN y - 1 ELSE y
        era == yy \div 400
        yoe == yy - era * 400
        mp  == (m + 10) % 12
        doy == (153 * mp + 2) \div 5 + d - 1
        doe == yoe * 365 + yoe \div 4 - yoe \div 100 + doy
    IN  era * 146097 + doe - 719468

DaysFromCivil(y, m, d) == DayOfCivil[y, m, d]

\* [y, m, d] of a day number, m in 0..11
CivilOfDay[z \in Int] ==
    LET zz  == z + 719468
        era == zz \div 146097
        doe == zz - era * 146097
        yoe == (doe - doe \div 1460 + doe \div 36524 - doe \div 146096) \div 365
        doy == doe - (365 * yoe + yoe \div 4 - yoe \div 100)
        mp  == (5 * doy + 2) \div 153
        d   == doy - (153 * mp + 2) \div 5 + 1
        m   == IF mp < 10 THEN mp + 2 ELSE mp - 10
        y   == yoe + era * 400 + (IF m <= 1 THEN 1 ELSE 0)
    IN  [y |-> y, m |-> m, d |-> d]

CivilFromDays(z) == CivilOfDay[z]

getFullYear(t) == CivilFromDays(DayOf(t)).y
getMonth(t) == CivilFromDays(DayOf(t)).m
getDate(t) == CivilFromDays(DayOf(t)).d
\* 0 = Sunday; 1970-01-01 was a Thursday
getDay(t) == (DayOf(t) + 4) % 7

\* new Date(y, m, d): midnight of that day
NewDate(y, m, d) == DaysFromCivil(y, m, d) * TicksPerDay

addDays(t, n) == t + n * TicksPerDay
addWeeks(t, n) == addDays(t, 7 * n)

\* date-fns addMonths: same day of month, clamped to the target month's length
addMonths(t, n) ==
    LET c     == CivilFromDays(DayOf(t))
        total == c.y * 12 + c.m + n
        ny    == total \div 12
        nm    == total % 12
    IN  NewDate(ny, nm, Min(c.d, DaysInMonth(ny, nm))) + TodOf(t)

addYears(t, n) == addMonths(t, 12 * n)

\* date-fns startOfWeek, weekStartsOn 0: midnight of the Sunday on or before t
startOfWeek(t) == (DayOf(t) - getDay(t)) * TicksPerDay

\* Math.ceil((b - a) / one day)
CeilDays(a, b) == -((a - b) \div TicksPerDay)

---------------------------------------------------------------------------
(* validateDate, validateDateRange *)

validateDate(date) == date # NoDate /\ date # InvalidDate

\* date-fns isBefore: false when either date is invalid
isBefore(a, b) == a # InvalidDate /\ b # InvalidDate /\ a < b

validateDateRange(startDate, end) ==
    IF end = NoDate THEN TRUE
    ELSE end # InvalidDate /\ ~isBefore(end, startDate)

---------------------------------------------------------------------------
(* getNthDayOfMonth *)

\* the loop `while (currentDay.getDay() !== dayOfWeek) currentDay = addDays(currentDay, 1)`
RECURSIVE FirstMatchingDay(_, _)
FirstMatchingDay(currentDay, dayOfWeek) ==
    IF getDay(currentDay) # dayOfWeek
    THEN FirstMatchingDay(addDays(currentDay, 1), dayOfWeek)
    ELSE currentDay

\* getNthDayOfMonth advancing by weekNum weeks instead of weekNum - 1
getNthDayOfMonth_OneWeekLate(date, weekNum, dayOfWeek) ==
    LET firstDayOfMonth == NewDate(getFullYear(date), getMonth(date), 1)
        currentDay      == FirstMatchingDay(firstDayOfMonth, dayOfWeek)
        weekCount       == 0
        targetDate      == addWeeks(currentDay, weekNum)
    IN  IF getMonth(targetDate) # getMonth(date)
        THEN addWeeks(currentDay, weekCount - 1)
        ELSE targetDate

getNthDayOfMonth(date, weekNum, dayOfWeek) ==
    LET firstDayOfMonth == NewDate(getFullYear(date), getMonth(date), 1)
        currentDay      == FirstMatchingDay(firstDayOfMonth, dayOfWeek)
        weekCount       == 0
        targetDate      == addWeeks(currentDay, weekNum - 1)
    IN  IF getMonth(targetDate) # getMonth(date)
        THEN addWeeks(currentDay, weekCount - 1)
        ELSE targetDate

---------------------------------------------------------------------------
(* calculatePreviewDates, one loop iteration at a time.  c is the record of *)
(* its seven arguments.                                                    *)

\* maxPreviewDates is Infinity when endDate is null
Infinity == -1

maxPreviewDates(c) ==
    IF c.endDate # NoDate THEN CeilDays(c.startDate, c.endDate) ELSE Infinity

\* dates.length < maxPreviewDates
BelowMax(n, c) == c.endDate = NoDate \/ n < maxPreviewDates(c)

\* (!endDate || d <= endDate)
NotAfterEnd(d, c) == c.endDate = NoDate \/ d <= c.endDate

\* the condition of both while loops
LoopCond(ds, cur, c) == BelowMax(Len(ds), c) /\ NotAfterEnd(cur, c)

\* the early return without its test of recurrenceType
EarlyReturn_NoTypeTest(c) == ~validateDate(c.startDate)

\* line 61: the early return
EarlyReturn(c) == c.recurrenceType = NoType \/ ~validateDate(c.startDate)

\* line 66: the weekly branch is taken
WeeklyBranch(c) == c.recurrenceType = "weekly" /\ Len(c.selectedDays) > 0

\* the for loop without the break of line 75
RECURSIVE ForSelectedDays_NoBreak(_, _, _, _)
ForSelectedDays_NoBreak(ds, ws, i, c) ==
    IF i > Len(c.selectedDays) THEN ds
    ELSE LET nextDate == addDays(ws, c.selectedDays[i])
         IN  IF nextDate >= c.startDate /\ NotAfterEnd(nextDate, c)
             THEN ForSelectedDays_NoBreak(Append(ds, nextDate), ws, i + 1, c)
             ELSE ForSelectedDays_NoBreak(ds, ws, i + 1, c)

\* the for loop over selectedDays of one weekly window, from index i on
RECURSIVE ForSelectedDays(_, _, _, _)
ForSelectedDays(ds, ws, i, c) ==
    IF i > Len(c.selectedDays) THEN ds
    ELSE LET nextDate == addDays(ws, c.selectedDays[i])
         IN  IF nextDate >= c.startDate /\ NotAfterEnd(nextDate, c)
             THEN LET pushed == Append(ds, nextDate)
                  IN  IF ~BelowMax(Len(pushed), c)
                      THEN pushed
                      ELSE ForSelectedDays(pushed, ws, i + 1, c)
             ELSE ForSelectedDays(ds, ws, i + 1, c)

\* the return of the weekly branch without its sort
SortDates_Unsorted(ds) == ds

\* dates.sort((a, b) => a.getTime() - b.getTime())
SortDates(ds) == SortSeq(ds, LAMBDA a, b : a < b)

\* the second loop's push without the test nthDate >= startDate
PushCurrent_NoStartTest(ds, cur, c) ==
    IF c.recurrenceType = "monthly" /\ c.monthlyRecurrenceType = "nthDay"
       /\ c.nthDayConfig # NoConfig
    THEN LET nthDate == getNthDayOfMonth(cur, c.nthDayConfig.weekNum,
                                         c.nthDayConfig.dayOfWeek)
         IN  IF NotAfterEnd(nthDate, c) THEN Append(ds, nthDate) ELSE ds
    ELSE Append(ds, cur)

\* lines 87-94: what one iteration of the second loop does to `dates`
PushCurrent(ds, cur, c) ==
    IF c.recurrenceType = "monthly" /\ c.monthlyRecurrenceType = "nthDay"
       /\ c.nthDayConfig # NoConfig
    THEN LET nthDate == getNthDayOfMonth(cur, c.nthDayConfig.weekNum,
                                         c.nthDayConfig.dayOfWeek)
         IN  IF nthDate >= c.startDate /\ NotAfterEnd(nthDate, c)
             THEN Append(ds, nthDate)
             ELSE ds
    ELSE Append(ds, cur)

\* the switch without its monthly case
Advance_NoMonthlyCase(cur, c) ==
    CASE c.recurrenceType = "daily"   -> addDays(cur, c.interval)
      [] c.recurrenceType = "yearly"  -> addYears(cur, c.interval)
      [] OTHER                        -> cur

\* lines 96-106: the switch that advances the cursor
Advance(cur, c) ==
    CASE c.recurrenceType = "daily"   -> addDays(cur, c.interval)
      [] c.recurrenceType = "monthly" -> addMonths(cur, c.interval)
      [] c.recurrenceType = "yearly"  -> addYears(cur, c.interval)
      [] OTHER                        -> cur

\* With no end date the model follows a loop only while `dates` is shorter
\* than MaxDates; with an end date it follows it to its exit.
WithinHorizon(ds, c) == c.endDate # NoDate \/ Len(ds) < MaxDates

\* the arguments of the call in progress: the store's fields, as
\* updatePreviewDates passes them (lines 261-269)
Args ==
    [ startDate             |-> selectedDate,
      recurrenceType        |-> recurrenceType,
      interval              |-> recurrenceInterval,
      endDate               |-> endDate,
      selectedDays          |-> selectedDays,
      monthlyRecurrenceType |-> monthlyRecurrenceType,
      nthDayConfig          |-> nthDayConfig ]

\* line 61
CalcEarlyReturn ==
    /\ pc = "call"
    /\ EarlyReturn(Args)
    /\ dates' = << selectedDate >>
    /\ pc' = "done"
    /\ UNCHANGED << configVars, previewDates, errors, currentDate, weekStart >>

\* lines 63-68
CalcEnterWeekly ==
    /\ pc = "call"
    /\ ~EarlyReturn(Args)
    /\ WeeklyBranch(Args)
    /\ dates' = << >>
    /\ currentDate' = selectedDate
    /\ weekStart' = startOfWeek(selectedDate)
    /\ pc' = "weekly"
    /\ UNCHANGED << configVars, previewDates, errors >>

\* lines 70-80: one iteration of the weekly loop
CalcWeeklyIter ==
    /\ pc = "weekly"
    /\ LoopCond(dates, currentDate, Args)
    /\ WithinHorizon(dates, Args)
    /\ dates' = ForSelectedDays(dates, weekStart, 1, Args)
    /\ weekStart' = addWeeks(weekStart, recurrenceInterval)
    /\ currentDate' = weekStart'
    /\ UNCHANGED << configVars, previewDates, errors, pc >>

\* line 82
CalcWeeklyReturn ==
    /\ pc = "weekly"
    /\ ~LoopCond(dates, currentDate, Args)
    /\ dates' = SortDates(dates)
    /\ pc' = "done"
    /\ UNCHANGED << configVars, previewDates, errors, currentDate, weekStart >>

\* lines 63-64, 85
CalcEnterLoop ==
    /\ pc = "call"
    /\ ~EarlyReturn(Args)
    /\ ~WeeklyBranch(Args)
    /\ dates' = << >>
    /\ currentDate' = selectedDate
    /\ pc' = "loop"
    /\ UNCHANGED << configVars, previewDates, errors, weekStart >>

\* lines 86-107: one iteration of the second loop
CalcLoopIter ==
    /\ pc = "loop"
    /\ LoopCond(dates, currentDate, Args)
    /\ WithinHorizon(dates, Args)
    /\ dates' = PushCurrent(dates, currentDate, Args)
    /\ currentDate' = Advance(currentDate, Args)
    /\ UNCHANGED << configVars, previewDates, errors, pc, weekStart >>

\* line 109
CalcLoopReturn ==
    /\ pc = "loop"
    /\ ~LoopCond(dates, currentDate, Args)
    /\ pc' = "done"
    /\ UNCHANGED << configVars, previewDates, errors, dates, currentDate, weekStart >>

NextCalc ==
    \/ CalcEarlyReturn
    \/ CalcEnterWeekly
    \/ CalcWeeklyIter
    \/ CalcWeeklyReturn
    \/ CalcEnterLoop
    \/ CalcLoopIter
    \/ CalcLoopReturn

---------------------------------------------------------------------------
(* The inputs of calculatePreviewDates that the model draws *)

Tods == 0 .. (TicksPerDay - 1)

\* a calendar day at every time of day
AtAnyTime(days) == { d + t : d \in days, t \in Tods }

\* the ends drawn for a start: none, or the start plus a span in ticks
EndsAfter(start, spans) == { NoDate } \cup { start + n : n \in spans }

\* spans of whole days, ending at every time of day
DaySpans(ns) == { n * TicksPerDay + t : n \in ns, t \in Tods }

Intervals == 1 .. MaxInterval

\* selectedDays: the orders of one or two distinct weekdays, and one of three
WeekdayChoices == {0, 1, 3, 6}
SelectedDaysChoices ==
    { << a >> : a \in WeekdayChoices }
    \cup { p \in WeekdayChoices \X WeekdayChoices : p[1] # p[2] }
    \cup { << 6, 0, 3 >> }

NthDayConfigs == [ weekNum : 1 .. 5, dayOfWeek : 0 .. 6 ]

Input(s, t, i, e, sd, m, n) ==
    [ startDate |-> s, recurrenceType |-> t, interval |-> i, endDate |-> e,
      selectedDays |-> sd, monthlyRecurrenceType |-> m, nthDayConfig |-> n ]

\* the call starts with the arguments c
Called(c) ==
    /\ selectedDate = c.startDate
    /\ recurrenceType = c.recurrenceType
    /\ recurrenceInterval = c.interval
    /\ endDate = c.endDate
    /\ selectedDays = c.selectedDays
    /\ monthlyRecurrenceType = c.monthlyRecurrenceType
    /\ nthDayConfig = c.nthDayConfig

NoTypeInputs ==
    \E s \in AtAnyTime({NewDate(2024, 0, 31)}) :
    \E e \in { NoDate, NewDate(2024, 1, 29) } :
        Called(Input(s, NoType, 1, e, << >>, "dayOfMonth", NoConfig))

DailyInputs ==
    \E s \in AtAnyTime({NewDate(2024, 1, 27)}) :
    \E i \in Intervals, e \in EndsAfter(s, 0 .. MaxDailySpan) :
        Called(Input(s, "daily", i, e, << >>, "dayOfMonth", NoConfig))

WeeklyInputs ==
    \E s \in AtAnyTime({ addDays(NewDate(2024, 0, 1), k) : k \in 0 .. 6 }) :
    \E i \in Intervals, e \in EndsAfter(s, 0 .. MaxWeeklySpan) :
    \E sd \in SelectedDaysChoices :
        Called(Input(s, "weekly", i, e, sd, "dayOfMonth", NoConfig))

MonthlyStarts ==
    AtAnyTime({ NewDate(2024, 0, 31), NewDate(2024, 2, 1), NewDate(2024, 2, 15),
                NewDate(2023, 11, 30) })

MonthlySpans == DaySpans({0, 30, 60, 91, 121})

DayOfMonthInputs ==
    \E s \in MonthlyStarts :
    \E i \in Intervals, e \in EndsAfter(s, MonthlySpans) :
    \E n \in { NoConfig, [weekNum |-> 1, dayOfWeek |-> 5] } :
        Called(Input(s, "monthly", i, e, << >>, "dayOfMonth", n))

NthDayInputs ==
    \E s \in MonthlyStarts :
    \E i \in Intervals, e \in EndsAfter(s, MonthlySpans) :
    \E n \in NthDayConfigs \cup { NoConfig } :
        Called(Input(s, "monthly", i, e, << >>, "nthDay", n))

YearlyStarts == AtAnyTime({ NewDate(2024, 1, 29), NewDate(2023, 1, 28) })

YearlySpans == DaySpans({0, 365, 366, 1461, 1827})

YearlyInputs ==
    \E s \in YearlyStarts :
    \E i \in Intervals, e \in EndsAfter(s, YearlySpans) :
        Called(Input(s, "yearly", i, e, << >>, "dayOfMonth", NoConfig))

\* calls that validateState would have refused: an invalid start date,
\* interval 0, weekly with no weekday
InvalidStartInputs ==
    \E t \in RecurrenceType, i \in Intervals :
    \E e \in { NoDate, NewDate(2024, 1, 29) } :
    \E sd \in { << >>, << 3 >> } :
        Called(Input(InvalidDate, t, i, e, sd, "dayOfMonth", NoConfig))

ZeroIntervalInputs ==
    \E s \in AtAnyTime({NewDate(2024, 1, 27)}) :
    \E t \in RecurrenceType, e \in EndsAfter(s, DaySpans({0, 2, 3})) :
    \E m \in MonthlyRecurrenceType :
    \E n \in { NoConfig, [weekNum |-> 1, dayOfWeek |-> 5] } :
        Called(Input(s, t, 0, e, << 3 >>, m, n))

NoWeekdayInputs ==
    \E s \in AtAnyTime({NewDate(2024, 1, 27)}) :
    \E i \in Intervals, e \in EndsAfter(s, DaySpans({0, 2, 3})) :
        Called(Input(s, "weekly", i, e, << >>, "dayOfMonth", NoConfig))

InitCalc ==
    /\ \/ NoTypeInputs
       \/ DailyInputs
       \/ WeeklyInputs
       \/ DayOfMonthInputs
       \/ NthDayInputs
       \/ YearlyInputs
       \/ InvalidStartInputs
       \/ ZeroIntervalInputs
       \/ NoWeekdayInputs
    /\ previewDates = << >>
    /\ errors = << >>
    /\ pc = "call"
    /\ dates = << >>
    /\ currentDate = NoCursor
    /\ weekStart = NoCursor

SpecCalc == InitCalc /\ [][NextCalc]_vars

\* The calls followed to their return: valid arguments with an end date, of
\* every kind, and the calls with no kind.
EndedInputs ==
    \E i \in Intervals :
        \/ \E s \in AtAnyTime({NewDate(2024, 1, 27)}) :
           \E n \in { 0, MaxDailySpan } :
              Called(Input(s, "daily", i, s + n, << >>, "dayOfMonth", NoConfig))
        \/ \E s \in AtAnyTime({NewDate(2024, 0, 3)}) :
           \E sd \in { << 3 >>, << 6, 0, 3 >> } :
              Called(Input(s, "weekly", i, s + MaxWeeklySpan, sd,
                           "dayOfMonth", NoConfig))
        \/ \E s \in MonthlyStarts, n \in DaySpans({60, 121}) :
              Called(Input(s, "monthly", i, s + n, << >>, "dayOfMonth", NoConfig))
        \/ \E s \in MonthlyStarts, n \in DaySpans({60, 121}) :
           \E c \in { [weekNum |-> 5, dayOfWeek |-> 5],
                     [weekNum |-> 1, dayOfWeek |-> 3] } :
              Called(Input(s, "monthly", i, s + n, << >>, "nthDay", c))
        \/ \E s \in YearlyStarts, n \in DaySpans({366, 1827}) :
              Called(Input(s, "yearly", i, s + n, << >>, "dayOfMonth", NoConfig))

InitCalcEnded ==
    /\ EndedInputs \/ NoTypeInputs
    /\ previewDates = << >>
    /\ errors = << >>
    /\ pc = "call"
    /\ dates = << >>
    /\ currentDate = NoCursor
    /\ weekStart = NoCursor

\* a call that has started runs on: nothing suspends it
SpecCalcFair == InitCalcEnded /\ [][NextCalc]_vars /\ WF_vars(NextCalc)

---------------------------------------------------------------------------
(* calculatePreviewDates as one call: the loops above, followed to the     *)
(* return.  returned = FALSE: the call is still in its loop at the model's *)
(* horizon.                                                                *)

RECURSIVE WeeklyLoop(_, _, _, _)
WeeklyLoop(ds, ws, cur, c) ==
    IF ~LoopCond(ds, cur, c) THEN [returned |-> TRUE, dates |-> SortDates(ds)]
    ELSE IF ~WithinHorizon(ds, c) THEN [returned |-> FALSE, dates |-> ds]
    ELSE LET next == addWeeks(ws, c.interval)
         IN  WeeklyLoop(ForSelectedDays(ds, ws, 1, c), next, next, c)

RECURSIVE SecondLoop(_, _, _)
SecondLoop(ds, cur, c) ==
    IF ~LoopCond(ds, cur, c) THEN [returned |-> TRUE, dates |-> ds]
    ELSE IF ~WithinHorizon(ds, c) THEN [returned |-> FALSE, dates |-> ds]
    ELSE SecondLoop(PushCurrent(ds, cur, c), Advance(cur, c), c)

calculatePreviewDates(c) ==
    IF EarlyReturn(c) THEN [returned |-> TRUE, dates |-> << c.startDate >>]
    ELSE IF WeeklyBranch(c)
         THEN WeeklyLoop(<< >>, startOfWeek(c.startDate), c.startDate, c)
         ELSE SecondLoop(<< >>, c.startDate, c)

---------------------------------------------------------------------------
(* The store.  An error is modelled by its field.  A handler runs in one   *)
(* step up to its call of calculatePreviewDates (pc = "call"); the call    *)
(* runs by the steps above, and UpdatePreviewDatesReturn ends the handler  *)
(* (pc = "idle").  No handler starts before the one in progress has ended, *)
(* so a call that does not return leaves the store in its loop for good.   *)

\* validateState returning at its first error
validateState_FirstErrorOnly(c) ==
    IF ~validateDate(c.startDate) THEN << "startDate" >>
    ELSE IF c.endDate # NoDate /\ ~validateDateRange(c.startDate, c.endDate)
    THEN << "dateRange" >>
    ELSE IF c.recurrenceType = "weekly" /\ Len(c.selectedDays) = 0
    THEN << "selectedDays" >>
    ELSE IF c.interval < 1 THEN << "interval" >>
    ELSE << >>

\* validateState's list of errors for the state c
validateState(c) ==
    (IF ~validateDate(c.startDate) THEN << "startDate" >> ELSE << >>)
    \o (IF c.endDate # NoDate /\ ~validateDateRange(c.startDate, c.endDate)
        THEN << "dateRange" >> ELSE << >>)
    \o (IF c.recurrenceType = "weekly" /\ Len(c.selectedDays) = 0
        THEN << "selectedDays" >> ELSE << >>)
    \o (IF c.interval < 1 THEN << "interval" >> ELSE << >>)

\* set({ ...the configuration fields of c })
SetConfig(c) ==
    /\ selectedDate' = c.startDate
    /\ recurrenceType' = c.recurrenceType
    /\ recurrenceInterval' = c.interval
    /\ endDate' = c.endDate
    /\ selectedDays' = c.selectedDays
    /\ monthlyRecurrenceType' = c.monthlyRecurrenceType
    /\ nthDayConfig' = c.nthDayConfig

\* updatePreviewDates without the return of line 259
updatePreviewDates_NoReturnOnErrors(c) ==
    /\ errors' = validateState(c)
    /\ pc' = "call"
    /\ UNCHANGED previewDates

\* updatePreviewDates on the state c, up to the call of
\* calculatePreviewDates (lines 256-261)
updatePreviewDates(c) ==
    LET errs == validateState(c)
    IN  /\ errors' = errs
        /\ pc' = IF Len(errs) > 0 THEN "idle" ELSE "call"
        /\ UNCHANGED previewDates

\* line 270: set({ previewDates: newPreviewDates }), and the handler ends
UpdatePreviewDatesReturn ==
    /\ pc = "done"
    /\ previewDates' = dates
    /\ pc' = "idle"
    /\ dates' = << >>
    /\ currentDate' = NoCursor
    /\ weekStart' = NoCursor
    /\ UNCHANGED << configVars, errors >>

\* a rejecting setter that adds its error to the list in place
Reject_AppendsError(field) ==
    /\ errors' = Append(errors, field)
    /\ UNCHANGED << configVars, previewDates, pc >>

\* a setter that rejects its argument: set({ errors: [{ field }] }); return
Reject(field) ==
    /\ errors' = << field >>
    /\ UNCHANGED << configVars, previewDates, pc >>

\* the dates a caller passes; an unparseable string becomes InvalidDate
StoreDates ==
    { NewDate(2024, 0, 31), NewDate(2024, 0, 31) + 1, NewDate(2024, 1, 7),
      NewDate(2024, 2, 31) }

\* new Date() as the store is created (both reads of the clock taken to
\* fall in one tick)
Now == NewDate(2024, 0, 31) + 1

StoreSelectedDays == { << >>, << 3 >>, << 6, 0 >> }

StoreNthDayConfigs ==
    { NoConfig, [weekNum |-> 5, dayOfWeek |-> 5], [weekNum |-> 1, dayOfWeek |-> 3] }

\* setSelectedDate with the range tested after the set of line 164
setSelectedDate_SetBeforeRange(date) ==
    /\ pc = "idle"
    /\ IF ~validateDate(date) THEN Reject("startDate")
       ELSE IF endDate # NoDate /\ ~validateDateRange(date, endDate)
            THEN /\ SetConfig([Args EXCEPT !.startDate = date])
                 /\ errors' = << "dateRange" >>
                 /\ UNCHANGED << previewDates, pc >>
            ELSE LET c == [Args EXCEPT !.startDate = date]
                 IN  SetConfig(c) /\ updatePreviewDates(c)
    /\ UNCHANGED << dates, currentDate, weekStart >>

setSelectedDate(date) ==
    /\ pc = "idle"
    /\ IF ~validateDate(date) THEN Reject("startDate")
       ELSE IF endDate # NoDate /\ ~validateDateRange(date, endDate)
            THEN Reject("dateRange")
            ELSE LET c == [Args EXCEPT !.startDate = date]
                 IN  SetConfig(c) /\ updatePreviewDates(c)
    /\ UNCHANGED << dates, currentDate, weekStart >>

setEndDate(date) ==
    /\ pc = "idle"
    /\ IF date # NoDate /\ ~validateDate(date) THEN Reject("endDate")
       ELSE IF date # NoDate /\ ~validateDateRange(selectedDate, date)
            THEN Reject("dateRange")
            ELSE LET c == [Args EXCEPT !.endDate = date]
                 IN  SetConfig(c) /\ updatePreviewDates(c)
    /\ UNCHANGED << dates, currentDate, weekStart >>

\* setRecurrenceType without lines 194-196
setRecurrenceType_NoDefaultDay(type) ==
    /\ pc = "idle"
    /\ LET c == [Args EXCEPT !.recurrenceType = type]
       IN  SetConfig(c) /\ updatePreviewDates(c)
    /\ UNCHANGED << dates, currentDate, weekStart >>

setRecurrenceType(type) ==
    /\ pc = "idle"
    /\ LET c == IF type = "weekly" /\ Len(selectedDays) = 0
                THEN [Args EXCEPT !.recurrenceType = type,
                                  !.selectedDays = << getDay(selectedDate) >>]
                ELSE [Args EXCEPT !.recurrenceType = type]
       IN  SetConfig(c) /\ updatePreviewDates(c)
    /\ UNCHANGED << dates, currentDate, weekStart >>

setRecurrenceInterval(interval) ==
    /\ pc = "idle"
    /\ IF interval < 1 THEN Reject("interval")
       ELSE LET c == [Args EXCEPT !.interval = interval]
            IN  SetConfig(c) /\ updatePreviewDates(c)
    /\ UNCHANGED << dates, currentDate, weekStart >>

setSelectedDays(days) ==
    /\ pc = "idle"
    /\ IF recurrenceType = "weekly" /\ Len(days) = 0 THEN Reject("selectedDays")
       ELSE LET c == [Args EXCEPT !.selectedDays = days]
            IN  SetConfig(c) /\ updatePreviewDates(c)
    /\ UNCHANGED << dates, currentDate, weekStart >>

setMonthlyRecurrenceType(type) ==
    /\ pc = "idle"
    /\ LET c == [Args EXCEPT !.monthlyRecurrenceType = type]
       IN  SetConfig(c) /\ updatePreviewDates(c)
    /\ UNCHANGED << dates, currentDate, weekStart >>

\* setNthDayConfig without the call of line 225
setNthDayConfig_NoUpdate(config) ==
    /\ pc = "idle"
    /\ SetConfig([Args EXCEPT !.nthDayConfig = config])
    /\ errors' = << >>
    /\ UNCHANGED << previewDates, pc, dates, currentDate, weekStart >>

setNthDayConfig(config) ==
    /\ pc = "idle"
    /\ LET c == [Args EXCEPT !.nthDayConfig = config]
       IN  SetConfig(c) /\ updatePreviewDates(c)
    /\ UNCHANGED << dates, currentDate, weekStart >>

\* the store's validateState action: set({ errors })
validateStateAction ==
    /\ pc = "idle"
    /\ errors' = validateState(Args)
    /\ UNCHANGED << configVars, previewDates, pc, dates, currentDate, weekStart >>

clearErrors ==
    /\ pc = "idle"
    /\ errors' = << >>
    /\ UNCHANGED << configVars, previewDates, pc, dates, currentDate, weekStart >>

\* the store's updatePreviewDates action
updatePreviewDatesAction ==
    /\ pc = "idle"
    /\ updatePreviewDates(Args)
    /\ UNCHANGED << configVars, dates, currentDate, weekStart >>

Init ==
    /\ selectedDate = Now
    /\ endDate = NoDate
    /\ recurrenceType = NoType
    /\ recurrenceInterval = 1
    /\ selectedDays = << >>
    /\ monthlyRecurrenceType = "dayOfMonth"
    /\ nthDayConfig = NoConfig
    /\ previewDates = << Now >>
    /\ errors = << >>
    /\ pc = "idle"
    /\ dates = << >>
    /\ currentDate = NoCursor
    /\ weekStart = NoCursor

Next ==
    \/ \E date \in StoreDates \cup { InvalidDate } : setSelectedDate(date)
    \/ \E date \in StoreDates \cup { InvalidDate, NoDate } : setEndDate(date)
    \/ \E type \in RecurrenceType \cup { NoType } : setRecurrenceType(type)
    \/ \E interval \in 0 .. MaxInterval : setRecurrenceInterval(interval)
    \/ \E days \in StoreSelectedDays : setSelectedDays(days)
    \/ \E type \in MonthlyRecurrenceType : setMonthlyRecurrenceType(type)
    \/ \E config \in StoreNthDayConfigs : setNthDayConfig(config)
    \/ validateStateAction
    \/ clearErrors
    \/ updatePreviewDatesAction
    \/ NextCalc
    \/ UpdatePreviewDatesReturn

Spec == Init /\ [][Next]_vars

---------------------------------------------------------------------------
(* validateState and updatePreviewDates on any state of type               *)
(* DatePickerState: the fields hold any value of their type, the values    *)
(* the setters refuse included.                                            *)

AnyStartDates == { Now, NewDate(2024, 1, 7), InvalidDate }

AnyEndDates == { NoDate, NewDate(2024, 0, 31), NewDate(2024, 1, 14) }

AnyIntervals == 0 .. MaxInterval

AnySelectedDays == { << >>, << 3 >> }

AnyNthDayConfigs == { NoConfig, [weekNum |-> 5, dayOfWeek |-> 5] }

InitAnyState ==
    /\ selectedDate \in AnyStartDates
    /\ endDate \in AnyEndDates
    /\ recurrenceType \in RecurrenceType \cup { NoType }
    /\ recurrenceInterval \in AnyIntervals
    /\ selectedDays \in AnySelectedDays
    /\ monthlyRecurrenceType \in MonthlyRecurrenceType
    /\ nthDayConfig \in AnyNthDayConfigs
    /\ previewDates = << Now >>
    /\ errors = << >>
    /\ pc = "idle"
    /\ dates = << >>
    /\ currentDate = NoCursor
    /\ weekStart = NoCursor

NextOnState ==
    \/ validateStateAction
    \/ clearErrors
    \/ updatePreviewDatesAction
    \/ NextCalc
    \/ UpdatePreviewDatesReturn

SpecAnyState == InitAnyState /\ [][NextOnState]_vars

---------------------------------------------------------------------------
(* Properties *)

Range(seq) == { seq[i] : i \in 1 .. Len(seq) }

NoDuplicates(seq) == \A i, j \in 1 .. Len(seq) : i # j => seq[i] # seq[j]

NonDecreasing(seq) == \A i \in 1 .. Len(seq) - 1 : seq[i] <= seq[i + 1]

StrictlyIncreasing(seq) == \A i \in 1 .. Len(seq) - 1 : seq[i] < seq[i + 1]

\* the call has returned and `dates` is what it returned
Returned == pc = "done"

\* the configuration invariants of the data model: a valid start date, an
\* end date not before it, interval >= 1, weekly with a non-empty set of
\* weekdays 0..6, nthDay with a configuration in 1..5 x 0..6
ValidArgs ==
    /\ validateDate(selectedDate)
    /\ endDate # InvalidDate
    /\ endDate # NoDate => endDate >= selectedDate
    /\ recurrenceInterval >= 1
    /\ recurrenceType = "weekly" => Len(selectedDays) > 0
    /\ NoDuplicates(selectedDays)
    /\ Range(selectedDays) \subseteq 0 .. 6
    /\ (recurrenceType = "monthly" /\ monthlyRecurrenceType = "nthDay")
          => nthDayConfig \in NthDayConfigs

NthDayMode ==
    /\ recurrenceType = "monthly"
    /\ monthlyRecurrenceType = "nthDay"
    /\ nthDayConfig # NoConfig

InLoop == pc \in {"weekly", "loop"}

\* C1: with a recurrence kind and no end date the call terminates with at
\* most a fixed number of dates: once `dates` holds as many elements as the
\* model follows (MaxDates), the loop in progress exits.
C1_CeilingWithoutEndDate ==
    (ValidArgs /\ recurrenceType # NoType /\ endDate = NoDate /\ InLoop
        /\ Len(dates) >= MaxDates)
    => ~LoopCond(dates, currentDate, Args)

\* C2: for every valid configuration the returned sequence holds no date
\* twice.
C2_NoDuplicateDates ==
    (Returned /\ ValidArgs) => NoDuplicates(dates)

\* C3: for every valid configuration with an end date, every returned date d
\* satisfies startDate <= d <= endDate.
C3_WithinStartAndEnd ==
    (Returned /\ ValidArgs /\ endDate # NoDate)
    => \A i \in 1 .. Len(dates) :
          selectedDate <= dates[i] /\ dates[i] <= endDate

\* a returned monthly nthDay sequence whose first month resolved to a date
\* before the start date, which the test of line 89 kept out
C3_Witness ==
    /\ Returned /\ ValidArgs /\ endDate # NoDate /\ NthDayMode
    /\ recurrenceType # NoType
    /\ getNthDayOfMonth(selectedDate, nthDayConfig.weekNum,
                        nthDayConfig.dayOfWeek) < selectedDate
    /\ Len(dates) >= 2

\* the last date of weekday dayOfWeek inside the month of `date`
LastWeekdayOfMonth(date, dayOfWeek) ==
    LET y    == getFullYear(date)
        m    == getMonth(date)
        last == NewDate(y, m, DaysInMonth(y, m))
    IN  addDays(last, -((getDay(last) - dayOfWeek) % 7))

\* C4: getNthDayOfMonth with weekNum = 5 returns the last date of that
\* weekday inside the anchor month, never a date of another month.
C4_LastWeekdayInsideMonth ==
    (pc = "loop" /\ NthDayMode /\ ValidArgs /\ nthDayConfig.weekNum = 5)
    => getNthDayOfMonth(currentDate, 5, nthDayConfig.dayOfWeek)
          = LastWeekdayOfMonth(currentDate, nthDayConfig.dayOfWeek)

\* the nth weekday of the month of `date`, "last" for weekNum = 5
NthWeekdayOfMonth(date, weekNum, dayOfWeek) ==
    LET first == NewDate(getFullYear(date), getMonth(date), 1)
        match == addDays(first, (dayOfWeek - getDay(first)) % 7)
    IN  IF weekNum = 5 THEN LastWeekdayOfMonth(date, dayOfWeek)
        ELSE addWeeks(match, weekNum - 1)

\* the first day of the month k months after the month of `date`
MonthAfter(date, k) ==
    LET total == getFullYear(date) * 12 + getMonth(date) + k
    IN  NewDate(total \div 12, total % 12, 1)

\* the nth weekday of every interval-th month from the start date's month,
\* kept when it lies within [startDate, endDate]
ExpectedNthDays ==
    { d \in { NthWeekdayOfMonth(MonthAfter(selectedDate, k * recurrenceInterval),
                                nthDayConfig.weekNum, nthDayConfig.dayOfWeek) :
                k \in 0 .. (DayOf(endDate) - DayOf(selectedDate)) \div 28 + 1 } :
        selectedDate <= d /\ d <= endDate }

\* C5: monthly nthDay with an end date returns exactly the nth weekday of
\* each month of the interval-stepped sequence of months from the start
\* date's month that lies within [startDate, endDate], in ascending order.
C5_NthDayExact ==
    (Returned /\ ValidArgs /\ NthDayMode /\ endDate # NoDate)
    => StrictlyIncreasing(dates) /\ Range(dates) = ExpectedNthDays

\* the dates of the selected weekdays in every interval-th Sunday-started
\* week from the week of the start date, within [startDate, endDate]
ExpectedWeeklyDates ==
    { d \in { addDays(startOfWeek(selectedDate), 7 * recurrenceInterval * k + day) :
                k \in 0 .. (DayOf(endDate) - DayOf(selectedDate)) \div 7 + 1,
                day \in Range(selectedDays) } :
        selectedDate <= d /\ d <= endDate }

\* C6: weekly with an end date returns exactly the dates d with
\* startDate <= d <= endDate whose weekday is selected and whose week is a
\* multiple of interval weeks after the start week, in ascending order.
C6_WeeklyExact ==
    (Returned /\ ValidArgs /\ recurrenceType = "weekly" /\ endDate # NoDate)
    => StrictlyIncreasing(dates) /\ Range(dates) = ExpectedWeeklyDates

\* startDate + n * interval days, for every n >= 0 that keeps it <= endDate
ExpectedDailyDates ==
    { d \in { addDays(selectedDate, n * recurrenceInterval) :
                n \in 0 .. DayOf(endDate) - DayOf(selectedDate) + 1 } :
        d <= endDate }

\* C7: daily with an end date returns exactly startDate + n * interval days
\* for every n >= 0 with startDate + n * interval <= endDate.
C7_DailyExact ==
    (Returned /\ ValidArgs /\ recurrenceType = "daily" /\ endDate # NoDate)
    => StrictlyIncreasing(dates) /\ Range(dates) = ExpectedDailyDates

\* C8: monthly dayOfMonth: occurrence k (k >= 0) lies k * interval months
\* after the start date's month, on the start date's day of month or on the
\* month's last day when the month is shorter; a clamp does not carry over.
C8_DayOfMonthKept ==
    (pc \in {"loop", "done"} /\ ValidArgs /\ recurrenceType = "monthly"
        /\ monthlyRecurrenceType = "dayOfMonth")
    => \A k \in 1 .. Len(dates) :
          dates[k] = addMonths(selectedDate, (k - 1) * recurrenceInterval)

\* C9: for every valid configuration the returned sequence is non-decreasing,
\* for every recurrence kind, every order of selectedDays and every weekNum.
C9_NonDecreasing ==
    (Returned /\ ValidArgs) => NonDecreasing(dates)

\* a returned weekly sequence whose selectedDays are listed in descending
\* order and whose first two dates fall in one week: they were pushed in the
\* opposite order
C9_Witness ==
    /\ Returned /\ ValidArgs /\ recurrenceType = "weekly"
    /\ Len(selectedDays) >= 2 /\ selectedDays[1] > selectedDays[2]
    /\ Len(dates) >= 2
    /\ startOfWeek(dates[1]) = startOfWeek(dates[2])

\* the store is between two handlers
Idle == pc = "idle"

\* C10: with no recurrence kind the result is exactly [startDate]: a call
\* with recurrenceType = null returns [startDate], and in every store state
\* between handlers with recurrenceType = null, previewDates = [selectedDate].
C10_NoTypeSingleDate ==
    recurrenceType = NoType
    => /\ Returned => dates = << selectedDate >>
       /\ Idle => previewDates = << selectedDate >>

\* the store with no recurrence kind, after setRecurrenceType(null) or
\* setSelectedDate recomputed the preview for another start date and range
C10_Witness ==
    /\ Idle /\ recurrenceType = NoType
    /\ selectedDate # Now /\ endDate # NoDate
    /\ previewDates = << selectedDate >>

\* C11: updatePreviewDates runs validateState first: from a state for which
\* validateState returns errors no step starts calculatePreviewDates or
\* changes previewDates, and calculatePreviewDates never runs on a state for
\* which validateState returns an error.
C11_ValidateBeforeGenerate ==
    /\ [](~Idle => validateState(Args) = << >>)
    /\ [][(Idle /\ validateState(Args) # << >>)
            => (pc' = "idle" /\ previewDates' = previewDates)]_vars

\* updatePreviewDates has run on a state with two violated checks: it left
\* their errors, and the preview the state started with
C11_Witness ==
    /\ Idle /\ Len(errors) >= 2 /\ errors = validateState(Args)
    /\ recurrenceType # NoType
    /\ previewDates = << Now >>

\* the step left one error, of the given field, and changed neither the
\* configuration nor the preview
RejectedWith(field) ==
    errors' = << field >> /\ UNCHANGED << configVars, previewDates >>

\* C12: a setter that rejects its argument sets errors to exactly one error
\* with the matching field and leaves every configuration field and
\* previewDates unchanged: setSelectedDate gives startDate for an unparseable
\* date and dateRange for a date after endDate; setEndDate gives endDate for
\* an unparseable date and dateRange for a date before selectedDate;
\* setRecurrenceInterval gives interval for interval < 1; setSelectedDays
\* gives selectedDays for an empty list while recurrenceType = weekly.
C12_RejectingSetter ==
    [][ /\ \A date \in StoreDates \cup { InvalidDate } :
            /\ (setSelectedDate(date) /\ ~validateDate(date))
                  => RejectedWith("startDate")
            /\ (setSelectedDate(date) /\ validateDate(date)
                  /\ endDate # NoDate /\ date > endDate)
                  => RejectedWith("dateRange")
            /\ (setEndDate(date) /\ ~validateDate(date))
                  => RejectedWith("endDate")
            /\ (setEndDate(date) /\ validateDate(date) /\ date < selectedDate)
                  => RejectedWith("dateRange")
        /\ \A interval \in 0 .. MaxInterval :
            (setRecurrenceInterval(interval) /\ interval < 1)
                  => RejectedWith("interval")
        /\ (setSelectedDays(<< >>) /\ recurrenceType = "weekly")
                  => RejectedWith("selectedDays") ]_vars

\* a setter has rejected its argument in a store whose preview holds the
\* dates of a recurrence: the error is alone, the preview is still there
C12_Witness ==
    /\ Idle /\ errors = << "dateRange" >>
    /\ recurrenceType # NoType /\ endDate # NoDate
    /\ Len(previewDates) >= 2

\* the fields of the checks the current state violates
ViolatedChecks ==
    (IF ~validateDate(selectedDate) THEN { "startDate" } ELSE { })
    \cup (IF validateDate(selectedDate) /\ endDate # NoDate
             /\ endDate < selectedDate
          THEN { "dateRange" } ELSE { })
    \cup (IF recurrenceInterval < 1 THEN { "interval" } ELSE { })
    \cup (IF recurrenceType = "weekly" /\ selectedDays = << >>
          THEN { "selectedDays" } ELSE { })

InvalidArgs ==
    \/ ~validateDate(selectedDate)
    \/ recurrenceInterval < 1
    \/ recurrenceType = "weekly" /\ Len(selectedDays) = 0

\* C14: calculatePreviewDates called with an invalid start date, with
\* interval < 1 or with weekly and no selected weekday returns [startDate]
\* and nothing else, and collects no second date on its way.
C14_InvalidArgsGiveStartDate ==
    (InvalidArgs /\ recurrenceType # NoType)
    => /\ InLoop => Len(dates) <= 1
       /\ Returned => dates = << selectedDate >>

\* C15: in every state the store reaches through its setters, selectedDate
\* is a valid date, endDate is null or not before selectedDate,
\* recurrenceInterval >= 1 and weekly comes with a non-empty selectedDays;
\* validateState returns no error there.
C15_ConfigurationInvariants ==
    /\ validateDate(selectedDate)
    /\ endDate = NoDate \/ (validateDate(endDate) /\ endDate >= selectedDate)
    /\ recurrenceInterval >= 1
    /\ recurrenceType = "weekly" => Len(selectedDays) > 0
    /\ validateState(Args) = << >>

\* setRecurrenceType('weekly') found selectedDays empty and filled it with
\* the start date's weekday, a list no call of setSelectedDays passes, and
\* the handler has ended
C15_Witness ==
    /\ Idle /\ recurrenceType = "weekly" /\ endDate # NoDate
    /\ selectedDays = << getDay(selectedDate) >>
    /\ selectedDays \notin StoreSelectedDays

\* C16: whenever the store holds recurrenceType = monthly and
\* monthlyRecurrenceType = nthDay (while the preview is generated, and between
\* handlers) nthDayConfig is present with weekNum in 1..5 and dayOfWeek in
\* 0..6, so no preview is computed as in dayOfMonth mode for a null
\* nthDayConfig.
C16_NthDayConfigPresent ==
    (recurrenceType = "monthly" /\ monthlyRecurrenceType = "nthDay")
    => nthDayConfig \in NthDayConfigs

\* C17: in every state between two handlers of the store, previewDates is
\* what calculatePreviewDates returns for the current configuration.
C17_PreviewOfConfiguration ==
    Idle => LET r == calculatePreviewDates(Args)
            IN  r.returned /\ previewDates = r.dates

\* the store between two handlers in monthly nthDay mode, with a preview of
\* two dates or more computed after the start date, the end date, the kind,
\* the monthly mode and nthDayConfig were all set
C17_Witness ==
    /\ Idle /\ NthDayMode /\ endDate # NoDate
    /\ selectedDate # Now
    /\ Len(previewDates) >= 2
    /\ previewDates # << selectedDate >>

\* C18: yearly: occurrence k (k >= 0) lies k * interval years after the
\* start date, on the start date's month and day of month; a 29 February
\* start falls on the last day of February in a non-leap year and on
\* 29 February again in every later leap year.
C18_YearlyDayKept ==
    (pc \in {"loop", "done"} /\ ValidArgs /\ recurrenceType = "yearly")
    => \A k \in 1 .. Len(dates) :
          dates[k] = addYears(selectedDate, (k - 1) * recurrenceInterval)

\* C19: for every valid configuration with an end date, calculatePreviewDates
\* terminates: every iteration of its loop moves the cursor strictly
\* forward, a cursor beyond endDate ends the loop, and the call returns; for
\* daily, weekly, monthly (both modes) and yearly.
C19_TerminatesWithEndDate ==
    /\ [][(InLoop /\ ValidArgs /\ endDate # NoDate /\ pc' = pc)
            => currentDate' > currentDate]_vars
    /\ [][(InLoop /\ ValidArgs /\ endDate # NoDate /\ currentDate > endDate)
            => pc' = "done"]_vars
    /\ (ValidArgs /\ recurrenceType # NoType /\ endDate # NoDate) ~> Returned

\* a monthly nthDay call has returned because its cursor went beyond the end
\* date, after three iterations or more and before the ceiling on the number
\* of dates was met
C19_Witness ==
    /\ Returned /\ ValidArgs /\ NthDayMode /\ endDate # NoDate
    /\ currentDate > endDate
    /\ currentDate >= addMonths(selectedDate, 3)
    /\ Len(dates) < maxPreviewDates(Args)

\* C20: with an end date (a valid one, not before the start date) and a
\* recurrence kind, calculatePreviewDates returns at most
\* ceil(days from startDate to endDate) dates; when endDate equals startDate
\* it returns the empty sequence, for every kind.
C20_AtMostCeilDays ==
    (Returned /\ validateDate(selectedDate) /\ recurrenceType # NoType
        /\ endDate # NoDate /\ endDate >= selectedDate)
    => /\ Len(dates) <= CeilDays(selectedDate, endDate)
       /\ endDate = selectedDate => dates = << >>

\* a returned weekly sequence that the ceiling cut short: it holds as many
\* dates as the ceiling allows, and more selected weekdays lie within
\* [startDate, endDate]
C20_Witness ==
    /\ Returned /\ ValidArgs /\ recurrenceType = "weekly" /\ endDate # NoDate
    /\ Len(dates) = CeilDays(selectedDate, endDate)
    /\ Len(dates) >= 1
    /\ Cardinality(ExpectedWeeklyDates) > Len(dates)

\* the step is a call of a setter that rejects its argument
RejectingSetterStep ==
    \/ \E date \in StoreDates \cup { InvalidDate } :
          /\ setSelectedDate(date)
          /\ ~validateDate(date)
                \/ (endDate # NoDate /\ ~validateDateRange(date, endDate))
    \/ \E date \in StoreDates \cup { InvalidDate } :
          /\ setEndDate(date)
          /\ ~validateDate(date) \/ ~validateDateRange(selectedDate, date)
    \/ \E interval \in 0 .. MaxInterval :
          setRecurrenceInterval(interval) /\ interval < 1
    \/ setSelectedDays(<< >>) /\ recurrenceType = "weekly"

\* the step is a handler that got past its tests and calls
\* calculatePreviewDates: an accepted setter (or updatePreviewDates itself)
AcceptedStep == pc = "idle" /\ pc' = "call"

\* C21: in every state of the store errors holds at most one element; errors
\* is empty right after every accepted setter and after clearErrors; and
\* errors becomes non-empty, or changes while non-empty, only by a setter
\* that rejects its argument.
C21_AtMostOneError ==
    /\ [](Len(errors) <= 1)
    /\ [][(AcceptedStep \/ clearErrors) => errors' = << >>]_vars
    /\ [][(errors' # << >> /\ errors' # errors) => RejectingSetterStep]_vars

\* setSelectedDays has rejected an empty list in a store with a weekly
\* preview: its error stands alone, whatever error was there before
C21_Witness ==
    /\ Idle /\ errors = << "selectedDays" >>
    /\ recurrenceType = "weekly" /\ endDate # NoDate
    /\ Len(previewDates) >= 1

\* C22: getNthDayOfMonth with weekNum in 1..4 returns the first date of the
\* anchor month whose weekday is dayOfWeek, advanced by weekNum - 1 weeks:
\* a date of that weekday inside the anchor month, among its days
\* 7 * (weekNum - 1) + 1 .. 7 * weekNum, so the branch for a result outside
\* the month is not taken.  Stated for every cursor of the second loop as the
\* anchor and every weekday.
C22_OrdinalsOneToFour ==
    pc = "loop"
    => \A weekNum \in 1 .. 4, dayOfWeek \in 0 .. 6 :
          LET r == getNthDayOfMonth(currentDate, weekNum, dayOfWeek)
          IN  /\ getDay(r) = dayOfWeek
              /\ getFullYear(r) = getFullYear(currentDate)
              /\ getMonth(r) = getMonth(currentDate)
              /\ getDate(r) \in (7 * (weekNum - 1) + 1) .. (7 * weekNum)
              /\ TodOf(r) = 0

\* a monthly nthDay call with weekNum = 4 has returned two dates or more, one
\* of them in a February
C22_Witness ==
    /\ Returned /\ NthDayMode /\ ValidArgs /\ nthDayConfig.weekNum = 4
    /\ Len(dates) >= 2
    /\ \E i \in 1 .. Len(dates) :
          getMonth(dates[i]) = 1 /\ getDate(dates[i]) >= 22

===========================================================================
